---- MODULE Spec2Model ----
(***************************************************************************)
(* A model of assets/js/script.js, the chromatic tuner: the microphone     *)
(* toggle, the asynchronous start, stop, the per-frame updatePitch cycle    *)
(* with its two smoothing buffers, and the autocorrelation pitch detector. *)
(*                                                                         *)
(* Numbers.  JavaScript numbers are binary floating point.  The model      *)
(* keeps the rounding of the operations whose exactness a property can     *)
(* depend on, at a reduced width:                                          *)
(*   - frequencies are multiples of 1 Hz with a significand of FloatBits   *)
(*     bits (a double has 53); every sum and quotient of frequencies is    *)
(*     rounded to nearest, ties to even, as the hardware does;             *)
(*   - smoothedCents is kept in units of 1/CentsUnit cent;                 *)
(*   - samples are multiples of 1/SampleScale; sums of absolute sample     *)
(*     differences and the comparisons made on them are exact;             *)
(*   - a read outside a Float32Array gives undefined, which arithmetic     *)
(*     turns into NaN: a number is a record [nan, v].                      *)
(***************************************************************************)
EXTENDS Integers, Sequences, FiniteSets, TLC

\* ------------------------------------------------------------ constants

frequencyBufferSize == 10

noteBufferSize == 5

noteStrings == <<"C", "C#", "D", "D#", "E", "F", "F#", "G", "G#", "A", "A#", "B">>

\* the value of noteStrings[i] for an index that is no element of the array
Undefined == "undefined"

\* ------------------------------------------------------------ bounds

\* bits of the significand of a frequency (53 in the program)
FloatBits == 10

\* smoothedCents is a multiple of 1/CentsUnit
CentsUnit == 4

\* samples are multiples of 1/SampleScale
SampleScale == 1000

\* samples in a block of the engine (analyser.fftSize, 2048 in the program)
BlockLen == 8

\* getUserMedia requests that may be unresolved at a time
MaxPending == 2

\* updatePitch callbacks that may be scheduled at a time
MaxScheduled == 2

\* times the sounding tone changes in a run
MaxToneChanges == 1

\* samples in a block given to the autocorrelator on its own
MaxBlockLen == 8

\* the highest of the low smoothed frequencies given to the note smoothing, in Hz
MaxFrequency == 16

\* ------------------------------------------------- floating point helpers

RECURSIVE Pow2(_)
Pow2(n) == IF n <= 0 THEN 1 ELSE 2 * Pow2(n - 1)

\* the spacing of the representable numbers around x >= 0
RECURSIVE UlpFrom(_, _)
UlpFrom(x, u) == IF x < Pow2(FloatBits) * u THEN u ELSE UlpFrom(x, 2 * u)

Ulp(x) == UlpFrom(x, 1)

\* num / den (num >= 0, den > 0) rounded to the nearest multiple of u, ties to even
RoundToMultiple(num, den, u) ==
    LET q == num \div (den * u)
        r == num % (den * u)
    IN  IF 2 * r > den * u THEN (q + 1) * u
        ELSE IF 2 * r < den * u THEN q * u
        ELSE (q + (q % 2)) * u

\* num / den as the nearest representable frequency
FRound(num, den) == RoundToMultiple(num, den, Ulp(num \div den))

\* a + b of two frequencies, as the program's + computes it
FAdd(a, b) == FRound(a + b, 1)

\* the value Infinity, above every frequency of the model
Infinity == 1073741824

\* a / b for a > 0, as the program's / computes it: a / 0 is Infinity, and the
\* quotient by a negative b is negative
FDiv(a, b) ==
    IF b > 0 THEN FRound(a, b)
    ELSE IF b = 0 THEN Infinity
    ELSE 0 - FRound(a, 0 - b)

\* arr.reduce((a, b) => a + b): a left fold with +, no initial value
RECURSIVE ReduceSum(_)
ReduceSum(arr) ==
    IF Len(arr) = 1 THEN arr[1]
    ELSE FAdd(ReduceSum(SubSeq(arr, 1, Len(arr) - 1)), arr[Len(arr)])

\* ------------------------------------------------------------ PitchMapper

\* 440 * 2^(s/12) for s = 0..11, in units of 1/10 Hz
SemitoneTable ==
    <<4400, 4662, 4939, 5233, 5544, 5873, 6223, 6593, 6985, 7400, 7840, 8306>>

\* 2^(r/1200) for r = 0..99, in units of 1/10000
CentTable ==
    <<10000, 10006, 10012, 10017, 10023, 10029, 10035, 10041, 10046, 10052,
      10058, 10064, 10070, 10075, 10081, 10087, 10093, 10099, 10105, 10110,
      10116, 10122, 10128, 10134, 10140, 10145, 10151, 10157, 10163, 10169,
      10175, 10181, 10187, 10192, 10198, 10204, 10210, 10216, 10222, 10228,
      10234, 10240, 10246, 10251, 10257, 10263, 10269, 10275, 10281, 10287,
      10293, 10299, 10305, 10311, 10317, 10323, 10329, 10335, 10341, 10347,
      10353, 10359, 10365, 10371, 10377, 10383, 10389, 10395, 10401, 10407,
      10413, 10419, 10425, 10431, 10437, 10443, 10449, 10455, 10461, 10467,
      10473, 10479, 10485, 10491, 10497, 10503, 10509, 10515, 10521, 10528,
      10534, 10540, 10546, 10552, 10558, 10564, 10570, 10576, 10582, 10589>>

\* floor(log2(num / den / 440)), for num / den > 0
RECURSIVE Octave(_, _)
Octave(num, den) ==
    IF num >= 880 * den THEN Octave(num, 2 * den) + 1
    ELSE IF num < 440 * den THEN Octave(2 * num, den) - 1
    ELSE 0

\* floor(1200 * Math.log(frequency / 440) / Math.log(2)), for frequency > 0
CentsAbove440(frequency) ==
    LET k == Octave(frequency, 1)
        num == IF k < 0 THEN frequency * Pow2(0 - k) ELSE frequency
        den == IF k > 0 THEN Pow2(k) ELSE 1
        s == CHOOSE x \in 0..11 :
                /\ SemitoneTable[x + 1] * den <= 10 * num
                /\ (x < 11 => SemitoneTable[x + 2] * den > 10 * num)
        r == Cardinality({y \in 1..99 :
                SemitoneTable[s + 1] * CentTable[y + 1] * den <= 100000 * num})
    IN  1200 * k + 100 * s + r

\* Math.round(12 * log2(frequency / 440)) + 69: Math.round rounds halves up
noteFromPitch(frequency) == ((CentsAbove440(frequency) + 50) \div 100) + 69

\* floor(1200 * log2(frequency / frequencyFromNoteNumber(note))), where
\* frequencyFromNoteNumber(note) = 440 * 2^((note - 69) / 12)
centsOffFromPitch(frequency, note) == CentsAbove440(frequency) - 100 * (note - 69)

\* note % 12 in JavaScript: the remainder takes the sign of the dividend
JsRem12(note) == IF note >= 0 THEN note % 12 ELSE 0 - ((0 - note) % 12)

\* noteStrings[note % 12]
NoteName(note) ==
    IF JsRem12(note) >= 0 THEN noteStrings[JsRem12(note) + 1] ELSE Undefined

\* ------------------------------------------------------------ Autocorrelator

\* a number that may be NaN
Num(x) == [nan |-> FALSE, v |-> x]

NaN == [nan |-> TRUE, v |-> 0]

\* x < y and x > y: false when either side is NaN
Lt(x, y) == ~x.nan /\ ~y.nan /\ x.v < y.v

Gt(x, y) == ~x.nan /\ ~y.nan /\ x.v > y.v

Abs(x) == IF x < 0 THEN 0 - x ELSE x

\* buffer[idx] of a Float32Array, idx counted from 0: undefined outside it
Sample(buffer, idx) ==
    IF idx >= 0 /\ idx < Len(buffer) THEN Num(buffer[idx + 1]) ELSE NaN

\* the sum over j = 0..n-1 of Math.abs(buffer[j] - buffer[j + lag])
RECURSIVE SumAbsDiff(_, _, _)
SumAbsDiff(buffer, n, lag) ==
    IF n <= 0 THEN Num(0)
    ELSE LET rest == SumAbsDiff(buffer, n - 1, lag)
             a == Sample(buffer, n - 1)
             b == Sample(buffer, n - 1 + lag)
         IN  IF rest.nan \/ a.nan \/ b.nan THEN NaN
             ELSE Num(rest.v + Abs(a.v - b.v))

\* the loop of correlationShift from step i on
RECURSIVE ShiftLoop(_, _, _, _, _, _)
ShiftLoop(buffer, maxSamples, offset, i, best_offset, best_correlation) ==
    IF i >= 16 THEN best_offset
    ELSE LET cc == SumAbsDiff(buffer, maxSamples, offset + i)
             cc_prev == SumAbsDiff(buffer, maxSamples, offset + i - 1)
             better == i = 0 \/ Lt(cc, best_correlation)
             bo == IF better THEN i ELSE best_offset
             bc == IF better THEN cc ELSE best_correlation
         IN  IF Gt(cc, cc_prev) THEN bo
             ELSE ShiftLoop(buffer, maxSamples, offset, i + 1, bo, bc)

correlationShift(buffer, maxSamples, offset) ==
    ShiftLoop(buffer, maxSamples, offset, 0, -1, Num(0))

\* the highest index j + offset + i the loop of correlationShift reads from
\* step i on, -1 when it reads nothing
RECURSIVE ShiftHighRead(_, _, _, _)
ShiftHighRead(buffer, maxSamples, offset, i) ==
    IF i >= 16 \/ maxSamples = 0 THEN -1
    ELSE LET cc == SumAbsDiff(buffer, maxSamples, offset + i)
             cc_prev == SumAbsDiff(buffer, maxSamples, offset + i - 1)
             high == maxSamples - 1 + offset + i
             later == ShiftHighRead(buffer, maxSamples, offset, i + 1)
         IN  IF Gt(cc, cc_prev) THEN high
             ELSE IF later > high THEN later ELSE high

\* Math.floor(SIZE / 2)
MaxSamples(buffer) == Len(buffer) \div 2

\* correlations are kept as numerators over this denominator
CorrDen(buffer) == MaxSamples(buffer) * SampleScale

\* the sum over the block of val * val
RECURSIVE SumSquares(_)
SumSquares(buffer) ==
    IF Len(buffer) = 0 THEN 0
    ELSE buffer[1] * buffer[1] + SumSquares(Tail(buffer))

\* the comparison turned round: rms > 0.01
RmsAboveNoiseFloor(buffer) ==
    /\ Len(buffer) > 0
    /\ SumSquares(buffer) > (Len(buffer) * SampleScale * SampleScale) \div 10000

\* rms < 0.01, with rms = Math.sqrt(sum / SIZE): 0 / 0 is NaN, and NaN < 0.01 is false
RmsBelowNoiseFloor(buffer) ==
    /\ Len(buffer) > 0
    /\ SumSquares(buffer) <= (Len(buffer) * SampleScale * SampleScale - 1) \div 10000

\* the locals of autoCorrelate on entry; result is 0 until the function returns;
\* lowRead and highRead are the lowest and the highest index at which the lag
\* loop and correlationShift have read the block (0 and -1: nothing read)
acEntry(buffer) ==
    [pc |-> "rms", offset |-> 0, scanned |-> 0, correlation |-> 0, lastCorrelation |-> 0,
     bestOffset |-> -1, bestCorrelation |-> 0, foundGoodCorrelation |-> FALSE,
     shift |-> -1, result |-> 0, lowRead |-> 0, highRead |-> -1]

\* lastCorrelation = 0 for lastCorrelation = 1
acRmsLastZero(buffer, a) ==
    IF RmsBelowNoiseFloor(buffer)
    THEN [a EXCEPT !.pc = "done", !.result = -1]
    ELSE [a EXCEPT !.pc = "scan", !.lastCorrelation = 0]

\* lines 167-179: the signal strength test, and lastCorrelation = 1
acRms(buffer, a) ==
    IF RmsBelowNoiseFloor(buffer)
    THEN [a EXCEPT !.pc = "done", !.result = -1]
    ELSE [a EXCEPT !.pc = "scan", !.lastCorrelation = CorrDen(buffer)]

\* lines 180-201: one iteration of the lag loop, at a.offset < MAX_SAMPLES
acScanLag(buffer, sampleRate, a) ==
    LET offset == a.offset
        correlation == CorrDen(buffer) - SumAbsDiff(buffer, MaxSamples(buffer), offset).v
        high == MaxSamples(buffer) - 1 + offset
        scanned == [a EXCEPT !.scanned = a.scanned + 1,
                             !.correlation = correlation,
                             !.highRead = IF high > a.highRead THEN high ELSE a.highRead]
    IN  IF 10 * correlation > 9 * CorrDen(buffer) /\ correlation > a.lastCorrelation
        THEN [scanned EXCEPT
                !.foundGoodCorrelation = TRUE,
                !.bestCorrelation = IF correlation > a.bestCorrelation
                                    THEN correlation ELSE a.bestCorrelation,
                !.bestOffset = IF correlation > a.bestCorrelation
                               THEN offset ELSE a.bestOffset,
                !.lastCorrelation = correlation,
                !.offset = offset + 1]
        ELSE IF a.foundGoodCorrelation
        THEN LET k == correlationShift(buffer, MaxSamples(buffer), offset)
                 fine == ShiftHighRead(buffer, MaxSamples(buffer), offset, 0)
             IN  [scanned EXCEPT
                    !.pc = "done",
                    !.shift = k,
                    !.lowRead = IF offset - 1 < a.lowRead THEN offset - 1 ELSE a.lowRead,
                    !.highRead = IF fine > scanned.highRead THEN fine ELSE scanned.highRead,
                    !.result = FDiv(32 * sampleRate, 32 * a.bestOffset + k - 8)]
        ELSE [scanned EXCEPT !.lastCorrelation = correlation, !.offset = offset + 1]

\* lines 203-207: after the loop
acScanEnd(buffer, sampleRate, a) ==
    IF 100 * a.bestCorrelation > CorrDen(buffer)
    THEN [a EXCEPT !.pc = "done", !.result = FDiv(sampleRate, a.bestOffset)]
    ELSE [a EXCEPT !.pc = "done", !.result = -1]

\* the next step of autoCorrelate
acStep(buffer, sampleRate, a) ==
    IF a.pc = "rms" THEN acRms(buffer, a)
    ELSE IF a.offset < MaxSamples(buffer) THEN acScanLag(buffer, sampleRate, a)
    ELSE acScanEnd(buffer, sampleRate, a)

RECURSIVE acRun(_, _, _)
acRun(buffer, sampleRate, a) ==
    IF a.pc = "done" THEN a ELSE acRun(buffer, sampleRate, acStep(buffer, sampleRate, a))

\* the value autoCorrelate returns: -1 or a frequency
autoCorrelate(buffer, sampleRate) == acRun(buffer, sampleRate, acEntry(buffer)).result

\* ------------------------------------------------------------ SmoothingStage

\* a push that never evicts
PushNoShift(arr, x, size) == Append(arr, x)

\* a push that evicts the newest element, pop() for shift()
PushPop(arr, x, size) ==
    IF Len(arr) + 1 > size THEN arr ELSE Append(arr, x)

\* arr.push(x) then, when arr.length > size, arr.shift()
PushShift(arr, x, size) ==
    IF Len(arr) + 1 > size THEN Tail(Append(arr, x)) ELSE Append(arr, x)

\* frequencyBuffer.reduce((a, b) => a + b) / frequencyBuffer.length
Mean(arr) == FDiv(ReduceSum(arr), Len(arr))

\* arr.filter(v => v === a).length
Count(arr, a) == Cardinality({i \in 1..Len(arr) : arr[i] = a})

\* arr.sort((a, b) => count(a) - count(b)): ascending by count, and stable
RECURSIVE SortFrom(_, _)
SortFrom(arr, c) ==
    IF c > Len(arr) THEN <<>>
    ELSE SelectSeq(arr, LAMBDA v : Count(arr, v) = c) \o SortFrom(arr, c + 1)

\* sort moves every undefined element behind the others without asking the
\* comparison function
SortByCount(arr) ==
    SortFrom(SelectSeq(arr, LAMBDA v : v # Undefined), 1)
        \o SelectSeq(arr, LAMBDA v : v = Undefined)

\* shift() for pop(): the first element of the sorted array, a least frequent one
findLeastFrequent(arr) ==
    LET sorted == SortByCount(arr)
    IN  IF Len(arr) = 0 THEN [value |-> Undefined, arr |-> <<>>]
        ELSE [value |-> sorted[1], arr |-> Tail(sorted)]

\* findMostFrequent(arr): sort sorts arr itself and pop removes its last element;
\* value is what is returned, arr what the array holds afterwards
findMostFrequent(arr) ==
    LET sorted == SortByCount(arr)
    IN  IF Len(arr) = 0 THEN [value |-> Undefined, arr |-> <<>>]
        ELSE [value |-> sorted[Len(sorted)],
              arr |-> SubSeq(sorted, 1, Len(sorted) - 1)]

\* smoothedCents * 0.8 + cents * 0.2, in units of 1/CentsUnit, rounded to nearest
SmoothCents(smoothedCents, cents) ==
    (8 * smoothedCents + 2 * cents * CentsUnit + 5) \div 10

\* ------------------------------------------------------------ display

\* the division by 2 left out
setNeedleWhole(cents) ==
    LET lim == 45 * 2 * CentsUnit
        m == IF 2 * cents < lim THEN 2 * cents ELSE lim
    IN  IF m > 0 - lim THEN m ELSE 0 - lim

\* the rotation setNeedle(cents) gives the needle, in units of 1/(2 * CentsUnit)
\* degree: Math.max(-45, Math.min(45, cents / 2)), cents in units of 1/CentsUnit
setNeedle(cents) ==
    LET lim == 45 * 2 * CentsUnit
        m == IF cents < lim THEN cents ELSE lim
    IN  IF m > 0 - lim THEN m ELSE 0 - lim

\* an in-tune band that takes in its ends: Math.abs(cents) <= 5
indicatorClosedBand(cents) ==
    IF Abs(cents) <= 5 * CentsUnit THEN "In tune"
    ELSE IF cents < 0 THEN "Flat"
    ELSE "Sharp"

\* the text updateFlatSharpIndicator(cents) shows, cents in units of 1/CentsUnit
updateFlatSharpIndicator(cents) ==
    IF Abs(cents) < 5 * CentsUnit THEN "In tune"
    ELSE IF cents < 0 THEN "Flat"
    ELSE "Sharp"

\* ------------------------------------------------------------ state

VARIABLES
    isListening,          \* line 12
    audioContext,         \* "none", "running" or "closed": the context of line 9
    sampleRate,           \* audioContext.sampleRate, 0 while there is no context
    pendingStarts,        \* startListening calls waiting at the await of line 49
    scheduled,            \* updatePitch callbacks requestAnimationFrame holds
    frequencyBuffer,      \* line 20
    noteBuffer,           \* line 27
    smoothedCents,        \* line 23, in units of 1/CentsUnit
    frequencyDisplay,     \* <<>> for '- Hz', <<f>> for 'f Hz'
    noteDisplay,          \* noteDisplay.textContent
    flatSharpIndicator,   \* flatSharpIndicator.textContent
    needleAngle,          \* the needle's rotation, in units of 1/(2 * CentsUnit) degree
    tone,                 \* environment: the period of the tone that sounds
    toneChanges,          \* environment: how often the tone has changed
    last,                 \* history: the operation that ran last
    run,                  \* history: [f, n]: the last n cycles (n capped) detected pitch f
    prevLen,              \* history: frequencyBuffer.length before the last operation
    detected,             \* memo: AcTable, computed once and never changed
    acState,              \* the autocorrelator run on its own: [buffer, rate, a]
    noteStage             \* the note smoothing run on its own (lines 108-126)

engineVars == <<frequencyBuffer, noteBuffer, smoothedCents, frequencyDisplay,
                noteDisplay, flatSharpIndicator, needleAngle>>

vars == <<isListening, audioContext, sampleRate, pendingStarts, scheduled,
          frequencyBuffer, noteBuffer, smoothedCents, frequencyDisplay,
          noteDisplay, flatSharpIndicator, needleAngle, tone, toneChanges,
          last, run, prevLen, detected, acState, noteStage>>

envVars == <<tone, toneChanges, detected, noteStage>>

\* the fields updatePitch and stopListening work on
Engine ==
    [frequencyBuffer |-> frequencyBuffer,
     noteBuffer |-> noteBuffer,
     smoothedCents |-> smoothedCents,
     frequencyDisplay |-> frequencyDisplay,
     noteDisplay |-> noteDisplay,
     needleAngle |-> needleAngle,
     flatSharpIndicator |-> flatSharpIndicator]

SetEngine(e) ==
    /\ frequencyBuffer' = e.frequencyBuffer
    /\ noteBuffer' = e.noteBuffer
    /\ smoothedCents' = e.smoothedCents
    /\ frequencyDisplay' = e.frequencyDisplay
    /\ noteDisplay' = e.noteDisplay
    /\ needleAngle' = e.needleAngle
    /\ flatSharpIndicator' = e.flatSharpIndicator

\* ------------------------------------------------------------ inputs

\* a block of silence
Silent == [i \in 1..BlockLen |-> 0]

\* a full-scale pulse every p samples
Pulse(p) == [i \in 1..BlockLen |-> IF (i - 1) % p = 0 THEN SampleScale ELSE 0]

\* the device's sample rate, scaled as the block length is
SampleRates == {1320}

\* the periods of the tones played to the tuner
Tones == {2, 3}

\* the block the analyser hands to a cycle: silence (0) or a tone of period p
Block(p) == IF p = 0 THEN Silent ELSE Pulse(p)

\* what a cycle may hear while the tone sounds or pauses
Sounds == {0, tone}

\* autoCorrelate on the blocks of the engine
AcTable ==
    [r \in SampleRates |-> [p \in {0} \cup Tones |-> autoCorrelate(Block(p), r)]]

\* autoCorrelate(buffer, audioContext.sampleRate) for buffer = Block(p)
Detect(p, rate) == detected[rate][p]

\* ac !== -1 && isFinite(ac) && ac > 0
ValidPitch(ac) == ac # -1 /\ ac # Infinity /\ ac > 0

\* the cap of the count kept in run
RunCap == frequencyBufferSize + 1

\* the history of detected pitches after a cycle on this block
RunAfter(p, rate) ==
    LET f == Detect(p, rate)
    IN  IF ~ValidPitch(f) THEN [f |-> -1, n |-> 0]
        ELSE IF run.f = f THEN [f |-> f, n |-> IF run.n < RunCap THEN run.n + 1 ELSE RunCap]
        ELSE [f |-> f, n |-> 1]

LastAfter(p, rate) ==
    IF ValidPitch(Detect(p, rate)) THEN "pitch" ELSE "nopitch"

\* ------------------------------------------------------------ updatePitch

\* lines 99-130: the branch of a detected pitch, on the engine's fields e
pitchBranch(e, ac) ==
    LET fb == PushShift(e.frequencyBuffer, ac, frequencyBufferSize)
        smoothedFrequency == Mean(fb)
        note == noteFromPitch(smoothedFrequency)
        noteName == NoteName(note)
        cents == centsOffFromPitch(smoothedFrequency, note)
        sc == SmoothCents(e.smoothedCents, cents)
        mf == findMostFrequent(PushShift(e.noteBuffer, noteName, noteBufferSize))
    IN  [frequencyBuffer |-> fb,
         noteBuffer |-> mf.arr,
         smoothedCents |-> sc,
         frequencyDisplay |-> <<smoothedFrequency>>,
         noteDisplay |-> IF mf.value # Undefined THEN mf.value ELSE e.noteDisplay,
         needleAngle |-> setNeedle(sc),
         flatSharpIndicator |-> updateFlatSharpIndicator(sc)]

\* a no-pitch branch that keeps the frequency history
noPitchKeepsHistory(e) ==
    [frequencyBuffer |-> e.frequencyBuffer,
     noteBuffer |-> <<>>,
     smoothedCents |-> e.smoothedCents,
     frequencyDisplay |-> <<>>,
     noteDisplay |-> "-",
     needleAngle |-> setNeedle(0),
     flatSharpIndicator |-> ""]

\* a no-pitch branch that hands smoothedCents to the needle
noPitchStaleNeedle(e) ==
    [frequencyBuffer |-> <<>>,
     noteBuffer |-> <<>>,
     smoothedCents |-> e.smoothedCents,
     frequencyDisplay |-> <<>>,
     noteDisplay |-> "-",
     needleAngle |-> setNeedle(e.smoothedCents),
     flatSharpIndicator |-> ""]

\* a no-pitch branch that resets smoothedCents
noPitchResetsCents(e) ==
    [frequencyBuffer |-> <<>>,
     noteBuffer |-> <<>>,
     smoothedCents |-> 0,
     frequencyDisplay |-> <<>>,
     noteDisplay |-> "-",
     needleAngle |-> setNeedle(0),
     flatSharpIndicator |-> ""]

\* lines 131-139: the branch of no pitch
noPitchBranch(e) ==
    [frequencyBuffer |-> <<>>,
     noteBuffer |-> <<>>,
     smoothedCents |-> e.smoothedCents,
     frequencyDisplay |-> <<>>,
     noteDisplay |-> "-",
     needleAngle |-> setNeedle(0),
     flatSharpIndicator |-> ""]

\* lines 89-139: updatePitch up to the rescheduling, on the analyser's block Block(p)
updatePitchFields(e, p, rate) ==
    LET pitch == Detect(p, rate)
    IN  IF ValidPitch(pitch) THEN pitchBranch(e, pitch) ELSE noPitchBranch(e)

\* a stop that leaves the frequency display as it is
stopKeepsFrequency(e) ==
    [frequencyBuffer |-> <<>>,
     noteBuffer |-> <<>>,
     smoothedCents |-> e.smoothedCents,
     frequencyDisplay |-> e.frequencyDisplay,
     noteDisplay |-> "-",
     needleAngle |-> setNeedle(0),
     flatSharpIndicator |-> ""]

\* lines 77-83: what stopListening writes
stopFields(e) ==
    [frequencyBuffer |-> <<>>,
     noteBuffer |-> <<>>,
     smoothedCents |-> e.smoothedCents,
     frequencyDisplay |-> <<>>,
     noteDisplay |-> "-",
     needleAngle |-> setNeedle(0),
     flatSharpIndicator |-> ""]

\* ------------------------------------------------------------ operations

\* the script has loaded: lines 9-27
Loaded ==
    /\ isListening = FALSE
    /\ audioContext = "none"
    /\ sampleRate = 0
    /\ pendingStarts = 0
    /\ scheduled = 0
    /\ frequencyBuffer = <<>>
    /\ noteBuffer = <<>>
    /\ smoothedCents = 0
    /\ frequencyDisplay = <<>>
    /\ noteDisplay = "-"
    /\ flatSharpIndicator = ""
    /\ needleAngle = 0
    /\ toneChanges = 0
    /\ last = "init"
    /\ run = [f |-> -1, n |-> 0]
    /\ prevLen = 0
    /\ detected = AcTable

\* the locals of lines 108-126 before they run on smoothed frequency f and
\* note history h
nsEntry(f, h) ==
    [pc |-> "push", smoothedFrequency |-> f, note |-> 0, noteBuffer |-> h,
     pushed |-> <<>>, mostFrequentNote |-> Undefined, noteDisplay |-> "-"]

Init ==
    /\ Loaded
    /\ tone \in Tones
    /\ acState = [buffer |-> <<>>, rate |-> 0, a |-> acEntry(<<>>)]
    /\ noteStage = nsEntry(440, <<>>)

\* a click while not listening: startListening runs up to its await
ClickStart ==
    /\ ~isListening
    /\ pendingStarts < MaxPending
    /\ pendingStarts' = pendingStarts + 1
    /\ last' = "start"
    /\ UNCHANGED <<isListening, audioContext, sampleRate, scheduled, engineVars, envVars, run, acState>>
    /\ prevLen' = Len(frequencyBuffer)

\* a click while listening: stopListening
ClickStop ==
    /\ isListening
    /\ audioContext' = IF audioContext = "none" THEN "none" ELSE "closed"
    /\ isListening' = FALSE
    /\ SetEngine(stopFields(Engine))
    /\ last' = "stop"
    /\ run' = [f |-> -1, n |-> 0]
    /\ prevLen' = Len(frequencyBuffer)
    /\ UNCHANGED <<sampleRate, pendingStarts, scheduled, envVars, acState>>

\* getUserMedia resolves: lines 53-61, the first updatePitch call included
StartSucceeds ==
    /\ pendingStarts > 0
    /\ scheduled < MaxScheduled
    /\ \E p \in Sounds, rate \in SampleRates :
          /\ sampleRate' = rate
          /\ SetEngine(updatePitchFields(Engine, p, rate))
          /\ run' = RunAfter(p, rate)
          /\ last' = LastAfter(p, rate)
    /\ pendingStarts' = pendingStarts - 1
    /\ audioContext' = "running"
    /\ isListening' = TRUE
    /\ scheduled' = scheduled + 1
    /\ prevLen' = Len(frequencyBuffer)
    /\ UNCHANGED <<envVars, acState>>

\* isListening set before the await, and left set by the catch
StartFailsListening ==
    /\ pendingStarts > 0
    /\ pendingStarts' = pendingStarts - 1
    /\ isListening' = TRUE
    /\ last' = "failed"
    /\ prevLen' = Len(frequencyBuffer)
    /\ UNCHANGED <<audioContext, sampleRate, scheduled, engineVars, envVars, run, acState>>

\* getUserMedia rejects: lines 63-66
StartFails ==
    /\ pendingStarts > 0
    /\ pendingStarts' = pendingStarts - 1
    /\ last' = "failed"
    /\ UNCHANGED <<isListening, audioContext, sampleRate, scheduled, engineVars, envVars, run, acState>>
    /\ prevLen' = Len(frequencyBuffer)

\* a scheduled callback runs updatePitch: lines 89-145
Frame ==
    /\ scheduled > 0
    /\ \E p \in Sounds :
          /\ SetEngine(updatePitchFields(Engine, p, sampleRate))
          /\ run' = RunAfter(p, sampleRate)
          /\ last' = LastAfter(p, sampleRate)
    /\ scheduled' = (scheduled - 1) + (IF isListening THEN 1 ELSE 0)
    /\ prevLen' = Len(frequencyBuffer)
    /\ UNCHANGED <<isListening, audioContext, sampleRate, pendingStarts, envVars, acState>>

\* environment: another tone is played
ToneChanges ==
    /\ toneChanges < MaxToneChanges
    /\ tone' \in Tones \ {tone}
    /\ toneChanges' = toneChanges + 1
    /\ UNCHANGED <<detected, isListening, audioContext, sampleRate, pendingStarts, scheduled,
                   engineVars, last, run, prevLen, acState, noteStage>>

Next ==
    ClickStart \/ ClickStop \/ StartSucceeds \/ StartFails \/ Frame \/ ToneChanges

Spec == Init /\ [][Next]_vars

\* ------------------------------------------------ the autocorrelator alone

\* sample values of a sounding block and of a faint one, in units of 1/SampleScale
LoudSamples == {0, 100, 1000}

QuietSamples == {0, 5}

BlocksOfLen(n) == [1..n -> LoudSamples] \cup [1..n -> QuietSamples]

\* autoCorrelate is entered with a block of any length up to MaxBlockLen
InitAC ==
    /\ Loaded
    /\ tone = 2
    /\ \E n \in 0..MaxBlockLen, rate \in SampleRates :
          \E buffer \in BlocksOfLen(n) :
             acState = [buffer |-> buffer, rate |-> rate, a |-> acEntry(buffer)]
    /\ noteStage = nsEntry(440, <<>>)

otherVars == <<isListening, audioContext, sampleRate, pendingStarts, scheduled,
               engineVars, envVars, last, run, prevLen>>

\* lines 167-179
AcRms ==
    /\ acState.a.pc = "rms"
    /\ acState' = [acState EXCEPT !.a = acRms(acState.buffer, acState.a)]
    /\ UNCHANGED otherVars

\* lines 180-201, one lag
AcScanLag ==
    /\ acState.a.pc = "scan"
    /\ acState.a.offset < MaxSamples(acState.buffer)
    /\ acState' = [acState EXCEPT !.a = acScanLag(acState.buffer, acState.rate, acState.a)]
    /\ UNCHANGED otherVars

\* lines 203-207
AcScanEnd ==
    /\ acState.a.pc = "scan"
    /\ acState.a.offset >= MaxSamples(acState.buffer)
    /\ acState' = [acState EXCEPT !.a = acScanEnd(acState.buffer, acState.rate, acState.a)]
    /\ UNCHANGED otherVars

NextAC == AcRms \/ AcScanLag \/ AcScanEnd

SpecAC == InitAC /\ [][NextAC]_vars

\* ------------------------------------------------ the note smoothing alone

\* smoothed frequencies, in Hz: the lowest ones, an A and an E
Frequencies == (1..MaxFrequency) \cup {440, 660}

\* the names held by the note history a cycle finds
HeldNames == {"A", "E"}

HistoriesOfLen(n) == [1..n -> HeldNames]

\* lines 108-126 are entered with a smoothed frequency and a note history
InitNS ==
    /\ Loaded
    /\ tone = 2
    /\ acState = [buffer |-> <<>>, rate |-> 0, a |-> acEntry(<<>>)]
    /\ \E f \in Frequencies, n \in 0..noteBufferSize :
          \E h \in HistoriesOfLen(n) : noteStage = nsEntry(f, h)

\* lines 108-122: the note of the smoothed frequency, its name, push and shift
NsPush ==
    /\ noteStage.pc = "push"
    /\ LET note == noteFromPitch(noteStage.smoothedFrequency)
           nb == PushShift(noteStage.noteBuffer, NoteName(note), noteBufferSize)
       IN  noteStage' = [noteStage EXCEPT
                           !.pc = "pick", !.note = note, !.noteBuffer = nb, !.pushed = nb]
    /\ UNCHANGED <<isListening, audioContext, sampleRate, pendingStarts, scheduled,
                   engineVars, tone, toneChanges, detected, last, run, prevLen, acState>>

\* lines 123-126: findMostFrequent(noteBuffer), shown when it is truthy
NsPick ==
    /\ noteStage.pc = "pick"
    /\ LET mf == findMostFrequent(noteStage.noteBuffer)
       IN  noteStage' = [noteStage EXCEPT
                           !.pc = "done",
                           !.noteBuffer = mf.arr,
                           !.mostFrequentNote = mf.value,
                           !.noteDisplay = IF mf.value # Undefined THEN mf.value ELSE @]
    /\ UNCHANGED <<isListening, audioContext, sampleRate, pendingStarts, scheduled,
                   engineVars, tone, toneChanges, detected, last, run, prevLen, acState>>

NextNS == NsPush \/ NsPick

SpecNS == InitNS /\ [][NextNS]_vars

\* ------------------------------------------------------------ properties

Min(a, b) == IF a < b THEN a ELSE b

\* n copies of x
Copies(x, n) == [i \in 1..n |-> x]

\* C1: in every reachable state the frequency history holds at most 10 elements
\* and the note history at most 5.
C1_HistoryBounds ==
    /\ Len(frequencyBuffer) <= frequencyBufferSize
    /\ Len(noteBuffer) <= noteBufferSize

\* a pitch cycle has run on a full frequency history, so an element was evicted
C1_Witness ==
    /\ last = "pitch"
    /\ prevLen = frequencyBufferSize
    /\ Len(frequencyBuffer) = frequencyBufferSize

\* C2: a cycle that detects no pitch leaves the frequency history and the note
\* history empty, whatever they held before.
C2_NoPitchClearsHistories ==
    last = "nopitch" => frequencyBuffer = <<>> /\ noteBuffer = <<>>

\* a no-pitch cycle has run on a non-empty frequency history
C2_Witness ==
    /\ last = "nopitch"
    /\ prevLen > 0
    /\ frequencyBuffer = <<>>

\* C3 (as claimed): after n consecutive pitch cycles since the last reset the
\* note history has length min(n, 5); the frequency history, which is cleared
\* at the same resets, has length min(n, 10).
C3_NoteHistoryLength ==
    last = "pitch" => Len(noteBuffer) = Min(Len(frequencyBuffer), noteBufferSize)

\* C4: stop leaves the engine idle, both histories empty and the display neutral:
\* note '-', frequency '- Hz', no tuning label, needle at 0.
C4_StopIsNeutral ==
    last = "stop" =>
        /\ ~isListening
        /\ frequencyBuffer = <<>>
        /\ noteBuffer = <<>>
        /\ noteDisplay = "-"
        /\ frequencyDisplay = <<>>
        /\ flatSharpIndicator = ""
        /\ needleAngle = 0

\* stop has run on a non-empty history, a display showing a pitch behind it
C4_Witness ==
    /\ last = "stop"
    /\ prevLen > 0
    /\ ~isListening

\* C5 (as claimed): after stop, smoothedCents is 0.
C5_StopResetsCents ==
    last = "stop" => smoothedCents = 0

\* every multiple k * f up to the capacity of the frequency history is a
\* representable number, so that no addition of the mean rounds
ExactlySummable(f) ==
    \A k \in 1..frequencyBufferSize : FRound(k * f, 1) = k * f

\* C6 (as claimed): from the 10th consecutive cycle with the same pitch F on,
\* the smoothed frequency is exactly F.
C6_MeanIsExact ==
    (last = "pitch" /\ run.n >= frequencyBufferSize) => frequencyDisplay = <<run.f>>

\* C6 (amended): from the 10th consecutive cycle with the same pitch F on, the
\* frequency history holds F only; the smoothed frequency is F up to the
\* rounding of the additions and the division (7 units in the last place of
\* F), and exactly F when every multiple of F up to 10 F is representable.
C6_MeanUpToRounding ==
    (last = "pitch" /\ run.n >= frequencyBufferSize) =>
        /\ frequencyBuffer = Copies(run.f, frequencyBufferSize)
        /\ Len(frequencyDisplay) = 1
        /\ Abs(frequencyDisplay[1] - run.f) <= 7 * Ulp(run.f)
        /\ (ExactlySummable(run.f) => frequencyDisplay = <<run.f>>)

\* the 10th cycle with the same pitch has just evicted the last other estimate,
\* and the mean is that pitch
C6_Witness ==
    /\ last = "pitch"
    /\ run.n = frequencyBufferSize
    /\ prevLen = frequencyBufferSize
    /\ ExactlySummable(run.f)
    /\ frequencyDisplay = <<run.f>>

\* C7: after a cycle that detects no pitch the outputs are neutral: no
\* frequency, no note, no tuning label and the needle at 0, whatever
\* smoothedCents is.
C7_NoPitchIsNeutral ==
    last = "nopitch" =>
        /\ frequencyDisplay = <<>>
        /\ noteDisplay = "-"
        /\ flatSharpIndicator = ""
        /\ needleAngle = 0

\* a no-pitch cycle has run while smoothedCents is outside the in-tune band
C7_Witness ==
    /\ last = "nopitch"
    /\ Abs(smoothedCents) >= 5 * CentsUnit
    /\ needleAngle = 0

AllZero(buffer) == \A i \in 1..Len(buffer) : buffer[i] = 0

\* C8: on a block of zeros, of any length, the autocorrelator scans no lag and
\* returns the no-pitch value -1.
C8_SilenceIsNoPitch ==
    AllZero(acState.buffer) =>
        /\ acState.a.scanned = 0
        /\ acState.a.pc = "done" => acState.a.result = -1

\* the autocorrelator has returned on a block of MaxBlockLen zeros
C8_Witness ==
    /\ Len(acState.buffer) = MaxBlockLen
    /\ AllZero(acState.buffer)
    /\ acState.a.pc = "done"
    /\ acState.a.result = -1

\* C9: when the acquisition of a start fails, the listening flag, the scheduled
\* callbacks, both histories and smoothedCents are left as they were: an idle
\* engine stays idle and no cycle is run or scheduled.
C9_FailedStartChangesNothing ==
    [][(last' = "failed" /\ pendingStarts' = pendingStarts - 1) =>
          /\ isListening' = isListening
          /\ scheduled' = scheduled
          /\ frequencyBuffer' = frequencyBuffer
          /\ noteBuffer' = noteBuffer
          /\ smoothedCents' = smoothedCents]_vars

\* an acquisition has failed and the engine is idle, nothing scheduled
C9_Witness ==
    /\ last = "failed"
    /\ ~isListening
    /\ scheduled = 0
    /\ pendingStarts = 0

\* the needle's rotation for the value c handed to the renderer, c in units of
\* 1/CentsUnit: clamp(c / 2, -45, 45), in units of 1/(2 * CentsUnit) degree
ClampedHalf(c) ==
    IF c > 90 * CentsUnit THEN 90 * CentsUnit
    ELSE IF c < 0 - 90 * CentsUnit THEN 0 - 90 * CentsUnit
    ELSE c

\* C10: the needle shows clamp(c / 2, -45, 45) for the value c handed to the
\* renderer, smoothedCents after a pitch cycle and 0 after a no-pitch cycle or
\* a stop, and lies in [-45, 45] in every state.
C10_NeedleIsClampedHalf ==
    /\ needleAngle >= 0 - 90 * CentsUnit
    /\ needleAngle <= 90 * CentsUnit
    /\ last = "pitch" => needleAngle = ClampedHalf(smoothedCents)
    /\ last \in {"nopitch", "stop"} => needleAngle = ClampedHalf(0)

\* a pitch cycle has turned the needle away from 0
C10_Witness ==
    /\ last = "pitch"
    /\ needleAngle # 0
    /\ needleAngle = ClampedHalf(smoothedCents)

\* C11: after every pitch cycle the tuning label is the function of the
\* smoothedCents that cycle has written: 'In tune' if |smoothedCents| < 5,
\* else 'Flat' if smoothedCents < 0, else 'Sharp'; exactly -5 gives 'Flat',
\* exactly 5 gives 'Sharp', and the label is exactly one of the three.
C11_LabelOfSmoothedCents ==
    last = "pitch" =>
        /\ flatSharpIndicator \in {"In tune", "Flat", "Sharp"}
        /\ flatSharpIndicator = "In tune" <=>
              (smoothedCents > 0 - 5 * CentsUnit /\ smoothedCents < 5 * CentsUnit)
        /\ flatSharpIndicator = "Flat" <=> smoothedCents <= 0 - 5 * CentsUnit
        /\ flatSharpIndicator = "Sharp" <=> smoothedCents >= 5 * CentsUnit

\* a pitch cycle has left smoothedCents at exactly -5 or exactly 5 cents, and
\* the label is 'Flat' or 'Sharp'
C11_Witness ==
    /\ last = "pitch"
    /\ Abs(smoothedCents) = 5 * CentsUnit
    /\ flatSharpIndicator \in {"Flat", "Sharp"}

\* the cents a pitch cycle computes for the smoothed frequency f it displays
rawCents(f) == centsOffFromPitch(f, noteFromPitch(f))

\* C12: a cycle that detects no pitch leaves smoothedCents as it was, and a
\* pitch cycle computes 0.8 * smoothedCents + 0.2 * rawCents from the value it
\* finds, however many no-pitch cycles ran before it.
C12_NoPitchKeepsCents ==
    [][/\ (last' = "nopitch" /\ toneChanges' = toneChanges) =>
             smoothedCents' = smoothedCents
       /\ (last' = "pitch" /\ toneChanges' = toneChanges) =>
             smoothedCents' = SmoothCents(smoothedCents, rawCents(frequencyDisplay'[1]))]_vars

\* a no-pitch cycle has run on an empty frequency history, after another
\* no-pitch cycle or a stop, and smoothedCents still holds a value other than 0
C12_Witness ==
    /\ last = "nopitch"
    /\ prevLen = 0
    /\ isListening
    /\ smoothedCents # 0

\* C13 (as claimed): under every interleaving of clicks, resolved and failed
\* acquisitions and frame callbacks, at most one updatePitch callback is
\* scheduled at any time.
C13_OneCallback ==
    scheduled <= 1

\* C14 (as claimed): while the engine is not listening no cycle runs: the last
\* operation is never a cycle, both histories are empty and the display is
\* neutral, also when a callback was scheduled at the time of the stop.
C14_IdleIsQuiet ==
    ~isListening =>
        /\ last \notin {"pitch", "nopitch"}
        /\ frequencyBuffer = <<>>
        /\ noteBuffer = <<>>
        /\ frequencyDisplay = <<>>
        /\ noteDisplay = "-"
        /\ flatSharpIndicator = ""
        /\ needleAngle = 0

\* the position of the element of h that is the last, in the order of h, among
\* those that occur most often
LatestMostFrequent(h) ==
    CHOOSE i \in 1..Len(h) :
        /\ \A j \in 1..Len(h) : Count(h, h[j]) <= Count(h, h[i])
        /\ \A j \in (i + 1)..Len(h) : Count(h, h[j]) < Count(h, h[i])

\* C15: the note a cycle shows is an element of the note history as it stands
\* after the cycle's push and shift, and no element of that history occurs
\* more often; among equally frequent names the choice is a function of the
\* history: the one whose last occurrence is the latest.  A history of names
\* of the alphabet always gives a note.
C15_MostFrequentOfHistory ==
    noteStage.pc = "done" =>
        LET h == noteStage.pushed
            v == noteStage.mostFrequentNote
        IN  /\ (\A i \in 1..Len(h) : h[i] # Undefined) => v # Undefined
            /\ v # Undefined =>
                  /\ noteStage.noteDisplay = v
                  /\ \E i \in 1..Len(h) : h[i] = v
                  /\ \A i \in 1..Len(h) : Count(h, h[i]) <= Count(h, v)
                  /\ v = h[LatestMostFrequent(h)]

\* a note has been shown for a history in which another name occurs as often
C15_Witness ==
    /\ noteStage.pc = "done"
    /\ noteStage.mostFrequentNote # Undefined
    /\ noteStage.noteDisplay = noteStage.mostFrequentNote
    /\ \E i \in 1..Len(noteStage.pushed) :
          /\ noteStage.pushed[i] # noteStage.mostFrequentNote
          /\ Count(noteStage.pushed, noteStage.pushed[i])
                = Count(noteStage.pushed, noteStage.mostFrequentNote)

\* the 12 names of noteStrings
Alphabet == {noteStrings[i] : i \in 1..Len(noteStrings)}

\* C18 (as claimed): for every note index computed from a valid frequency, also
\* one below 0, the name pushed into the note history is the string of the
\* alphabet at index mod 12 (69 gives 'A'), and the note history holds names of
\* the alphabet only.
C18_NameInAlphabet ==
    noteStage.pc = "pick" =>
        /\ noteStage.pushed[Len(noteStage.pushed)] = noteStrings[(noteStage.note % 12) + 1]
        /\ \A i \in 1..Len(noteStage.noteBuffer) : noteStage.noteBuffer[i] \in Alphabet

\* C16 (as claimed): once a candidate has been accepted the scan stops only at
\* a lag whose correlation is strictly below that of the lag before it; a lag
\* of equal correlation does not stop it.
C16_StopsOnStrictDrop ==
    (acState.a.pc = "done" /\ acState.a.shift # -1) =>
        acState.a.correlation < acState.a.lastCorrelation

\* the correlation of the block at a lag, over CorrDen
CorrelationAt(buffer, lag) ==
    CorrDen(buffer) - SumAbsDiff(buffer, MaxSamples(buffer), lag).v

\* C17 (as claimed): when the scan has passed every lag without a rising peak,
\* the result is sampleRate / bestOffset for a lag of highest correlation if
\* some lag reached a correlation above 0.01, and no pitch (-1) only if none
\* did.  Lag 0, where the correlation of every block is 1, is left aside.
C17_FallbackWithoutPeak ==
    LET buffer == acState.buffer
        lags == 1..(MaxSamples(buffer) - 1)
        reached == \E lag \in lags : 100 * CorrelationAt(buffer, lag) > CorrDen(buffer)
    IN  (/\ acState.a.pc = "done"
         /\ acState.a.scanned > 0
         /\ acState.a.shift = -1
         /\ ~acState.a.foundGoodCorrelation) =>
            /\ reached =>
                  /\ acState.a.result # -1
                  /\ \E lag \in lags :
                        /\ \A other \in lags :
                              CorrelationAt(buffer, other) <= CorrelationAt(buffer, lag)
                        /\ acState.a.result = FDiv(acState.rate, lag)
            /\ ~reached => acState.a.result = -1

\* C19: lag 0 is never the best offset; when the autocorrelator returns a
\* frequency, bestOffset is at least 1, the refinement step is one of 0..15
\* (a shift in [-8/32, 7/32]), the divisor bestOffset or bestOffset + shift is
\* above 0 and the frequency returned is finite and above 0.
C19_DivisorPositive ==
    /\ acState.a.bestOffset # 0
    /\ (acState.a.pc = "done" /\ acState.a.result # -1) =>
          /\ acState.a.bestOffset >= 1
          /\ acState.a.shift = -1 \/ acState.a.shift \in 0..15
          /\ acState.a.shift # -1 => 32 * acState.a.bestOffset + acState.a.shift - 8 > 0
          /\ acState.a.result > 0
          /\ acState.a.result # Infinity

\* the autocorrelator has returned a frequency that it refined
C19_Witness ==
    /\ acState.a.pc = "done"
    /\ acState.a.shift # -1
    /\ acState.a.bestOffset >= 1
    /\ acState.a.result > 0

\* C20 (as claimed): every index at which the lag scan and correlationShift
\* read the block lies in [0, length of the block).
C20_ReadsInsideBlock ==
    /\ acState.a.lowRead >= 0
    /\ acState.a.highRead < Len(acState.buffer)

====
